---- MODULE Spec2Model ----
(***************************************************************************)
(* A model of ddog's request builder (src/src/builder.rs): the Builder     *)
(* value (version, headers), its version selectors, its four route         *)
(* producing operations with their version gating, panics and error log    *)
(* events, and the JSON body validator.                                    *)
(*                                                                         *)
(* types::version and routes::* are not part of the sources at hand; what  *)
(* the builder needs of them (the default variant of ApiVersion, the route *)
(* constructors, the version-gated try_from factories, the get-metrics     *)
(* setters) is modelled from the specification and marked so in the map.   *)
(***************************************************************************)
EXTENDS Integers, Sequences, FiniteSets, TLC

(* ------------------------------ bounds -------------------------------- *)

\* Longest header list a Builder holds in the model.
MaxHeaders == 3

\* Longest pair list handed to one with_headers call.
MaxAppend == 2

(* ------------------------------ values -------------------------------- *)

\* Option<T>
None == [some |-> FALSE]

Some(x) == [some |-> TRUE, val |-> x]

\* Option::unwrap_or_else with a closure returning d
unwrap_or_else(o, d) == IF o.some THEN o.val ELSE d

\* types::version::ApiVersion: V1, V2 and the variant a Builder starts with.
ApiVersion == {"Unset", "V1", "V2"}

\* <ApiVersion as Default>::default()
ApiVersionDefault == "Unset"

\* The (name, value) pairs callers attach in the model.
HeaderPairs == {<<"A", "1">>, <<"B", "2">>, <<"A", "3">>}

\* All sequences over S of length lo..hi.
SeqsOf(S, lo, hi) == UNION {[1..n -> S] : n \in lo..hi}

MetricNames == {"my.metric.name", "other.metric"}

Offsets == {0, 10}

Hosts == {None, Some("web-1")}

TagFilters == {None, Some("env:prod")}

(* ------------------------ route descriptors --------------------------- *)

\* The value standing for "no Route was returned".
NoRoute == [kind |-> "none"]

\* routes::metrics::tags::Tags::new(metric_name)
TagsNew(metric_name) ==
    [kind |-> "tags", metric_name |-> metric_name, headers |-> <<>>]

\* routes::metrics::series::Series::new()
SeriesNew == [kind |-> "series", headers |-> <<>>]

\* routes::metrics::distribution::Distribution in its default state
DistributionNew == [kind |-> "distribution", headers |-> <<>>]

\* routes::metrics::get_metrics::GetMetrics in its default state
GetMetricsNew ==
    [kind |-> "get_metrics", from |-> 0, host |-> "", tag_filter |-> "",
     headers |-> <<>>]

\* GetMetrics::set_from / set_host / set_tag_filter: mutate and return self
set_from(r, from) == [r EXCEPT !.from = from]

set_host(r, host) == [r EXCEPT !.host = host]

set_tag_filter(r, tag_filter) == [r EXCEPT !.tag_filter = tag_filter]

\* Result<T, E>
Ok(x) == [ok |-> TRUE, val |-> x]

Err(e) == [ok |-> FALSE, err |-> e]

\* The version sets the two try_from factories may accept: V2 is accepted
\* (the specification builds both routes under V2), the variant of a Builder
\* on which no version was selected is not; whether V1 is accepted is left
\* open.
FactoryChoices ==
    {S \in SUBSET ApiVersion : "V2" \in S /\ ApiVersionDefault \notin S}

\* Distribution::try_from(version), accepting the versions in accepts
DistributionTryFrom(accepts, version) ==
    IF version \in accepts
    THEN Ok(DistributionNew)
    ELSE Err([unsupported |-> version, endpoint |-> "distribution"])

\* GetMetrics::try_from(version), accepting the versions in accepts
GetMetricsTryFrom(accepts, version) ==
    IF version \in accepts
    THEN Ok(GetMetricsNew)
    ELSE Err([unsupported |-> version, endpoint |-> "get_metrics"])

(* --------------------- outcomes of one Builder call ------------------- *)

\* The call returned value x to its caller.
Return(x) == [value |-> x, trace |-> <<[ev |-> "return"]>>]

\* panic!(msg) after the events in before: no value reaches the caller.
Panic(before, msg) ==
    [value |-> NoRoute, trace |-> before \o <<[ev |-> "panic", msg |-> msg]>>]

\* The &mut Self a configuration call returns for chaining.
SelfRef == [kind |-> "builder"]

\* tracing::error!(target: "builder", ..., self.version, e)
ErrorEvent(what, version, e) ==
    [ev |-> "error", target |-> "builder", what |-> what,
     version |-> version, cause |-> e]

Panicked(out) == out.trace[Len(out.trace)].ev = "panic"

(* ------------------------- serde_json::from_str ----------------------- *)
(* A body is a sequence of one-character strings.  The parsers return the *)
(* position after what they read, or 0 when the text is not JSON.         *)

IsWs(c) == c \in {" ", "\t", "\n", "\r"}

Digits == {"0", "1", "2", "3", "4", "5", "6", "7", "8", "9"}

RECURSIVE SkipWs(_, _)
SkipWs(s, i) == IF i <= Len(s) /\ IsWs(s[i]) THEN SkipWs(s, i + 1) ELSE i

\* i is the position after the opening quote.
RECURSIVE ScanString(_, _)
ScanString(s, i) ==
    IF i > Len(s) THEN 0
    ELSE IF s[i] = "\"" THEN i + 1
    ELSE IF s[i] = "\\"
         THEN IF i + 1 <= Len(s) /\ s[i + 1] \in {"\"", "\\", "/", "b", "f", "n", "r", "t"}
              THEN ScanString(s, i + 2)
              ELSE 0
    ELSE ScanString(s, i + 1)

RECURSIVE ScanDigits(_, _)
ScanDigits(s, i) ==
    IF i <= Len(s) /\ s[i] \in Digits THEN ScanDigits(s, i + 1) ELSE i

\* the exponent part, if any, of a number whose mantissa ends before i
ScanExponent(s, i) ==
    IF i <= Len(s) /\ s[i] \in {"e", "E"}
    THEN LET j == IF i + 1 <= Len(s) /\ s[i + 1] \in {"+", "-"} THEN i + 2 ELSE i + 1
         IN  IF j <= Len(s) /\ s[j] \in Digits THEN ScanDigits(s, j) ELSE 0
    ELSE i

\* the fraction part, if any, of a number whose integer part ends before i
ScanFraction(s, i) ==
    IF i <= Len(s) /\ s[i] = "."
    THEN IF i + 1 <= Len(s) /\ s[i + 1] \in Digits
         THEN ScanExponent(s, ScanDigits(s, i + 1))
         ELSE 0
    ELSE ScanExponent(s, i)

ParseNumber(s, i) ==
    LET j == IF s[i] = "-" THEN i + 1 ELSE i
    IN  IF j > Len(s) \/ s[j] \notin Digits THEN 0
        ELSE IF s[j] = "0"
             THEN IF j + 1 <= Len(s) /\ s[j + 1] \in Digits
                  THEN 0
                  ELSE ScanFraction(s, j + 1)
        ELSE ScanFraction(s, ScanDigits(s, j))

HasPrefix(s, i, lit) ==
    /\ i + Len(lit) - 1 <= Len(s)
    /\ \A k \in 1..Len(lit) : s[i + k - 1] = lit[k]

RECURSIVE ParseValue(_, _)
RECURSIVE ParseElements(_, _)
RECURSIVE ParseMembers(_, _)

ParseValue(s, i) ==
    LET j == SkipWs(s, i)
    IN  IF j > Len(s) THEN 0
        ELSE IF s[j] = "{"
             THEN LET k == SkipWs(s, j + 1)
                  IN  IF k <= Len(s) /\ s[k] = "}" THEN k + 1 ELSE ParseMembers(s, k)
        ELSE IF s[j] = "["
             THEN LET k == SkipWs(s, j + 1)
                  IN  IF k <= Len(s) /\ s[k] = "]" THEN k + 1 ELSE ParseElements(s, k)
        ELSE IF s[j] = "\"" THEN ScanString(s, j + 1)
        ELSE IF s[j] = "-" \/ s[j] \in Digits THEN ParseNumber(s, j)
        ELSE IF HasPrefix(s, j, <<"t", "r", "u", "e">>) THEN j + 4
        ELSE IF HasPrefix(s, j, <<"f", "a", "l", "s", "e">>) THEN j + 5
        ELSE IF HasPrefix(s, j, <<"n", "u", "l", "l">>) THEN j + 4
        ELSE 0

\* the elements of an array from position i up to and including "]"
ParseElements(s, i) ==
    LET j == ParseValue(s, i)
    IN  IF j = 0 THEN 0
        ELSE LET k == SkipWs(s, j)
             IN  IF k > Len(s) THEN 0
                 ELSE IF s[k] = "," THEN ParseElements(s, k + 1)
                 ELSE IF s[k] = "]" THEN k + 1
                 ELSE 0

\* the members of an object from position i up to and including "}"
ParseMembers(s, i) ==
    LET a == SkipWs(s, i)
    IN  IF a > Len(s) \/ s[a] # "\"" THEN 0
        ELSE LET b == ScanString(s, a + 1)
             IN  IF b = 0 THEN 0
                 ELSE LET c == SkipWs(s, b)
                      IN  IF c > Len(s) \/ s[c] # ":" THEN 0
                          ELSE LET d == ParseValue(s, c + 1)
                               IN  IF d = 0 THEN 0
                                   ELSE LET e == SkipWs(s, d)
                                        IN  IF e > Len(s) THEN 0
                                            ELSE IF s[e] = "," THEN ParseMembers(s, e + 1)
                                            ELSE IF s[e] = "}" THEN e + 1
                                            ELSE 0

\* serde_json::from_str::<Value>(body): one value, then only whitespace
from_str(body) ==
    LET j == ParseValue(body, 1)
    IN  IF j = 0 THEN Err([category |-> "syntax"])
        ELSE IF SkipWs(body, j) <= Len(body)
             THEN Err([category |-> "trailing characters"])
        ELSE Ok([json |-> "value"])

(* ------------------------------ Builder ------------------------------- *)

\* #[derive(Default)] struct Builder { version, headers }
BuilderDefault == [version |-> ApiVersionDefault, headers |-> <<>>]

\* new, were it to start from V2
new_starts_v2 == [version |-> "V2", headers |-> <<>>]

\* Builder::new
new == BuilderDefault

\* is_body_valid_json with the arms of its match exchanged
is_body_valid_json_swapped(body) ==
    LET r == from_str(body)
    IN  IF r.ok THEN Some([category |-> "syntax"]) ELSE None

\* Builder::is_body_valid_json
is_body_valid_json(body) ==
    LET r == from_str(body)
    IN  IF r.ok THEN None ELSE Some(r.err)

\* v1 with the variant of v2
v1_selects_v2(self) == [self EXCEPT !.version = "V2"]

\* Builder::v1
v1(self) == [self EXCEPT !.version = "V1"]

\* v2 rebuilding the Builder from its default
v2_resets_headers(self) == [version |-> "V2", headers |-> <<>>]

\* Builder::v2
v2(self) == [self EXCEPT !.version = "V2"]

\* with_headers keeping one pair per header name, the last one written
with_headers_last_write_wins(self, pairs) ==
    LET all  == self.headers \o pairs
        keep == {i \in 1..Len(all) : \A j \in (i + 1)..Len(all) : all[j][1] # all[i][1]}
        f[i \in 0..Len(all)] ==
            IF i = 0 THEN <<>>
            ELSE IF i \in keep THEN Append(f[i - 1], all[i]) ELSE f[i - 1]
    IN  [self EXCEPT !.headers = f[Len(all)]]

\* with_headers(pairs): append the pairs to the Builder's header list
with_headers(self, pairs) == [self EXCEPT !.headers = @ \o pairs]

\* create_new_tag_config without its version gate
create_new_tag_config_ungated(self, metric_name) == Return(TagsNew(metric_name))

\* Builder::create_new_tag_config
create_new_tag_config(self, metric_name) ==
    IF self.version = "V2"
    THEN Return(TagsNew(metric_name))
    ELSE Panic(<<>>, "Unimplemented API Version")

\* post_series building another endpoint's route
post_series_wrong_kind(self) ==
    IF self.version = "V2"
    THEN Return(DistributionNew)
    ELSE Panic(<<>>, "Unimplemented API Version")

\* Builder::post_series
post_series(self) ==
    IF self.version = "V2"
    THEN Return(SeriesNew)
    ELSE Panic(<<>>, "Unimplemented API Version")

\* post_distribution panicking without the error event
post_distribution_silent(self, accepts) ==
    LET r == DistributionTryFrom(accepts, self.version)
    IN  IF r.ok
        THEN Return(r.val)
        ELSE Panic(<<>>, <<"Unimplemented API Version", r.err>>)

\* Builder::post_distribution; accepts is what Distribution::try_from accepts
post_distribution(self, accepts) ==
    LET r == DistributionTryFrom(accepts, self.version)
    IN  IF r.ok
        THEN Return(r.val)
        ELSE Panic(<<ErrorEvent("distribution", self.version, r.err)>>,
                   <<"Unimplemented API Version", r.err>>)

\* get_metrics with host and tag_filter exchanged
get_metrics_swapped(self, accepts, from, host, tag_filter) ==
    LET r == GetMetricsTryFrom(accepts, self.version)
    IN  IF r.ok
        THEN Return(set_tag_filter(set_host(set_from(r.val, from),
                                            unwrap_or_else(tag_filter, "")),
                                   unwrap_or_else(host, "")))
        ELSE Panic(<<ErrorEvent("metrics", self.version, r.err)>>,
                   <<"Unimplemented API Version", r.err>>)

\* Builder::get_metrics; accepts is what GetMetrics::try_from accepts
get_metrics(self, accepts, from, host, tag_filter) ==
    LET r == GetMetricsTryFrom(accepts, self.version)
    IN  IF r.ok
        THEN Return(set_tag_filter(set_host(set_from(r.val, from),
                                            unwrap_or_else(host, "")),
                                   unwrap_or_else(tag_filter, "")))
        ELSE Panic(<<ErrorEvent("metrics", self.version, r.err)>>,
                   <<"Unimplemented API Version", r.err>>)

\* Builder::with_subscriber; installed says whether a global tracing
\* subscriber is already set, in which case try_init fails and is reported.
with_subscriber(installed) ==
    [value |-> SelfRef,
     trace |-> IF installed
               THEN <<[ev |-> "println", msg |-> "Failed to initialize tracing!"],
                      [ev |-> "return"]>>
               ELSE <<[ev |-> "return"]>>]

(* --------------------------- the state machine ------------------------ *)

\* Bodies handed to is_body_valid_json, as character sequences.
JsonBodies ==
    { <<"{", "}">>,
      <<"{", "i", "n", "v", "a", "l", "i", "d">>,
      <<>>,
      <<" ", "{", " ", "}", " ">>,
      <<"{", "}", "{", "}">>,
      <<"[", "]">>,
      <<"[", "1", ",", "2", "]">>,
      <<"[", "1", ",", "]">>,
      <<"[", "1", " ", "2", "]">>,
      <<"{", "\"", "a", "\"", ":", "1", "}">>,
      <<"{", "\"", "a", "\"", "}">>,
      <<"{", "a", ":", "1", "}">>,
      <<"{", "\"", "a", "\"", ":", "[", "n", "u", "l", "l", "]", "}">>,
      <<"{", "\"", "a", "\"", ":", "1", ",", "}">>,
      <<"t", "r", "u", "e">>,
      <<"t", "r", "u">>,
      <<"\"", "a", "\"">>,
      <<"\"", "a">>,
      <<"-", "1", ".", "5", "e", "2">>,
      <<"0", "1">>,
      <<"1", ".">>,
      <<"[", "[", "]">> }

VARIABLES
    builder,       \* the Builder: [version, headers]
    accepts,       \* the versions Distribution / GetMetrics try_from accept
    subscriber,    \* whether a global tracing subscriber is installed
    terminated,    \* whether a panic has ended the program
    call,          \* the last Builder call: [op, args, self, out]
    lastSelected,  \* the version the last v1 / v2 call on this Builder chose
    appended       \* every pair list passed to with_headers, concatenated

vars == <<builder, accepts, subscriber, terminated, call, lastSelected, appended>>

RouteOps ==
    {"create_new_tag_config", "post_series", "post_distribution", "get_metrics"}

Init ==
    /\ builder = new
    /\ accepts \in [distribution : FactoryChoices, get_metrics : FactoryChoices]
    /\ subscriber = FALSE
    /\ terminated = FALSE
    /\ call = [op |-> "new", args |-> <<>>, self |-> new, out |-> Return(SelfRef)]
    /\ lastSelected = None
    /\ appended = <<>>

\* let mut builder = Builder::new();  (a fresh Builder replaces the old one)
Call_new ==
    /\ ~terminated
    /\ builder' = new
    /\ call' = [op |-> "new", args |-> <<>>, self |-> new, out |-> Return(SelfRef)]
    /\ lastSelected' = None
    /\ appended' = <<>>
    /\ UNCHANGED <<accepts, subscriber, terminated>>

Call_with_subscriber ==
    /\ ~terminated
    /\ subscriber' = TRUE
    /\ call' = [op |-> "with_subscriber", args |-> <<>>, self |-> builder,
                out |-> with_subscriber(subscriber)]
    /\ UNCHANGED <<builder, accepts, terminated, lastSelected, appended>>

Call_v1 ==
    /\ ~terminated
    /\ builder' = v1(builder)
    /\ call' = [op |-> "v1", args |-> <<>>, self |-> builder, out |-> Return(SelfRef)]
    /\ lastSelected' = Some("V1")
    /\ UNCHANGED <<accepts, subscriber, terminated, appended>>

Call_v2 ==
    /\ ~terminated
    /\ builder' = v2(builder)
    /\ call' = [op |-> "v2", args |-> <<>>, self |-> builder, out |-> Return(SelfRef)]
    /\ lastSelected' = Some("V2")
    /\ UNCHANGED <<accepts, subscriber, terminated, appended>>

Call_with_headers ==
    /\ ~terminated
    /\ \E pairs \in SeqsOf(HeaderPairs, 0, MaxAppend) :
          /\ Len(builder.headers) + Len(pairs) <= MaxHeaders
          /\ builder' = with_headers(builder, pairs)
          /\ call' = [op |-> "with_headers", args |-> <<pairs>>, self |-> builder,
                      out |-> Return(SelfRef)]
          /\ appended' = appended \o pairs
    /\ UNCHANGED <<accepts, subscriber, terminated, lastSelected>>

\* What every &self call leaves alone, and how its outcome is recorded.
Called(op, args, out) ==
    /\ call' = [op |-> op, args |-> args, self |-> builder, out |-> out]
    /\ terminated' = Panicked(out)
    /\ UNCHANGED <<builder, accepts, subscriber, lastSelected, appended>>

Call_create_new_tag_config ==
    /\ ~terminated
    /\ \E metric_name \in MetricNames :
          Called("create_new_tag_config", <<metric_name>>,
                 create_new_tag_config(builder, metric_name))

Call_post_series ==
    /\ ~terminated
    /\ Called("post_series", <<>>, post_series(builder))

Call_post_distribution ==
    /\ ~terminated
    /\ Called("post_distribution", <<>>,
              post_distribution(builder, accepts.distribution))

Call_get_metrics ==
    /\ ~terminated
    /\ \E from \in Offsets, host \in Hosts, tag_filter \in TagFilters :
          Called("get_metrics", <<from, host, tag_filter>>,
                 get_metrics(builder, accepts.get_metrics, from, host, tag_filter))

Call_is_body_valid_json ==
    /\ ~terminated
    /\ \E body \in JsonBodies :
          Called("is_body_valid_json", <<body>>, Return(is_body_valid_json(body)))

Next ==
    \/ Call_new
    \/ Call_with_subscriber
    \/ Call_v1
    \/ Call_v2
    \/ Call_with_headers
    \/ Call_create_new_tag_config
    \/ Call_post_series
    \/ Call_post_distribution
    \/ Call_get_metrics
    \/ Call_is_body_valid_json

Spec == Init /\ [][Next]_vars

(* ------------------------------ claims -------------------------------- *)

\* Whether the version-gated factory of op rejects version.
FactoryRejects(op, version) ==
    \/ op = "post_distribution"
       /\ ~DistributionTryFrom(accepts.distribution, version).ok
    \/ op = "get_metrics"
       /\ ~GetMetricsTryFrom(accepts.get_metrics, version).ok

\* The (version, operation) pairs the claims call unsupported.
Unsupported(op, version) ==
    \/ op \in {"create_new_tag_config", "post_series"} /\ version # "V2"
    \/ FactoryRejects(op, version)

\* The endpoint kind each operation is to build.
KindOf(op) ==
    CASE op = "create_new_tag_config" -> "tags"
      [] op = "post_series"           -> "series"
      [] op = "post_distribution"     -> "distribution"
      [] op = "get_metrics"           -> "get_metrics"

\* C1: a route producing operation called on an unsupported version (any
\* version but V2 for create_new_tag_config and post_series, the version of
\* a Builder on which none was selected included; a version the factory
\* rejects for post_distribution and get_metrics) panics, ends the program
\* and hands no Route to the caller.
C1_NoRouteWhenUnsupported ==
    (call.op \in RouteOps /\ Unsupported(call.op, call.self.version)) =>
        /\ call.out.value = NoRoute
        /\ Panicked(call.out)
        /\ terminated

\* C1 witness: post_series on a Builder on which no version was selected.
C1_Witness ==
    /\ call.op = "post_series"
    /\ lastSelected = None
    /\ call.self.version = ApiVersionDefault
    /\ call.out.value = NoRoute
    /\ terminated

C3_GetMetricsConfigured ==
    (call.op = "get_metrics" /\ ~FactoryRejects("get_metrics", call.self.version)) =>
        /\ call.out.value.kind = "get_metrics"
        /\ call.out.value.from = call.args[1]
        /\ call.out.value.host =
              (IF call.args[2] = None THEN "" ELSE call.args[2].val)
        /\ call.out.value.tag_filter =
              (IF call.args[3] = None THEN "" ELSE call.args[3].val)

\* C3 witness: get_metrics(10, None, Some("env:prod")) under V2.
C3_Witness ==
    /\ call.op = "get_metrics"
    /\ call.self.version = "V2"
    /\ call.args = <<10, None, Some("env:prod")>>
    /\ call.out.value.from = 10
    /\ call.out.value.host = ""
    /\ call.out.value.tag_filter = "env:prod"

C5_BuilderHeadersOnRoute ==
    (call.op \in RouteOps /\ call.out.value # NoRoute) =>
        call.out.value.headers = call.self.headers

\* C6: the Builder's version is the one its last v1 / v2 call chose, and a
\* selection succeeds whatever the version and the header list are.
C6_LastSelectionWins ==
    /\ lastSelected # None => builder.version = lastSelected.val
    /\ call.op = "v1" => (builder.version = "V1" /\ ~Panicked(call.out))
    /\ call.op = "v2" => (builder.version = "V2" /\ ~Panicked(call.out))
    /\ ~terminated => (ENABLED Call_v1 /\ ENABLED Call_v2)

\* C6 witness: v1 called on a Builder that v2 had set, headers attached.
C6_Witness ==
    /\ call.op = "v1"
    /\ call.self.version = "V2"
    /\ call.self.headers # <<>>
    /\ builder.version = "V1"

\* C7: a newly constructed Builder has the default version and no headers,
\* so any two newly constructed Builders are equal.
C7_NewIsDefault ==
    call.op = "new" =>
        /\ builder.version = ApiVersionDefault
        /\ builder.headers = <<>>
        /\ builder = call.self

\* C7 witness: a Builder constructed after earlier Builder calls were made.
C7_Witness ==
    /\ call.op = "new"
    /\ subscriber
    /\ builder = [version |-> ApiVersionDefault, headers |-> <<>>]

\* The bodies of JsonBodies that are JSON texts.
ValidJsonBodies ==
    { <<"{", "}">>,
      <<" ", "{", " ", "}", " ">>,
      <<"[", "]">>,
      <<"[", "1", ",", "2", "]">>,
      <<"{", "\"", "a", "\"", ":", "1", "}">>,
      <<"{", "\"", "a", "\"", ":", "[", "n", "u", "l", "l", "]", "}">>,
      <<"t", "r", "u", "e">>,
      <<"\"", "a", "\"">>,
      <<"-", "1", ".", "5", "e", "2">> }

\* C8: is_body_valid_json(body) is None exactly when body is a JSON text
\* and a parse error otherwise, whatever the Builder's version and headers
\* are, and the call leaves the Builder as it was.
C8_ValidateJson ==
    call.op = "is_body_valid_json" =>
        /\ (call.out.value = None) <=> (call.args[1] \in ValidJsonBodies)
        /\ (call.out.value # None) => call.out.value.some
        /\ ~Panicked(call.out)
        /\ builder = call.self

\* C8 witness: "{invalid" rejected on a Builder with V2 and headers set.
C8_Witness ==
    /\ call.op = "is_body_valid_json"
    /\ call.args[1] = <<"{", "i", "n", "v", "a", "l", "i", "d">>
    /\ call.out.value.some
    /\ builder.version = "V2"
    /\ builder.headers # <<>>

\* The positions of the error log events in a call's trace.
ErrorEvents(t) == {i \in 1..Len(t) : t[i].ev = "error"}

\* C9: when the factory rejects the version, post_distribution and
\* get_metrics emit one error event naming the attempted version and the
\* factory's error, then panic; a call that returns emits no error event,
\* and create_new_tag_config / post_series never emit one.
C9_ErrorLoggedBeforePanic ==
    call.op \in RouteOps =>
        LET t == call.out.trace
        IN  /\ FactoryRejects(call.op, call.self.version) =>
                  /\ Len(t) = 2
                  /\ t[1].ev = "error"
                  /\ t[1].version = call.self.version
                  /\ t[1].cause.unsupported = call.self.version
                  /\ t[2].ev = "panic"
            /\ ~Panicked(call.out) => ErrorEvents(t) = {}
            /\ call.op \in {"create_new_tag_config", "post_series"} =>
                  ErrorEvents(t) = {}

\* C9 witness: post_distribution rejected, the error event ahead of the panic.
C9_Witness ==
    /\ call.op = "post_distribution"
    /\ Len(call.out.trace) = 2
    /\ call.out.trace[1].ev = "error"
    /\ call.out.trace[2].ev = "panic"
    /\ terminated

\* C10: the route producing operations and is_body_valid_json leave version
\* and headers as they were, whether they return or panic, and repeating an
\* operation on the unchanged Builder repeats its gating outcome; v1 and v2
\* leave the header list as it was.
C10_Frame ==
    [][ /\ call'.op \in RouteOps \cup {"is_body_valid_json"} =>
              builder' = builder
        /\ (call.op \in RouteOps /\ call'.op = call.op) =>
              ((call'.out.value = NoRoute) <=> (call.out.value = NoRoute))
        /\ call'.op \in {"v1", "v2"} =>
              builder'.headers = builder.headers ]_vars

\* C10 witness: v2 called on a Builder that holds headers, which it keeps.
C10_Witness ==
    /\ call.op = "v2"
    /\ call.self.version = "V1"
    /\ call.self.headers # <<>>
    /\ builder.headers = call.self.headers

====
